---- MODULE Spec2Model ----
(***************************************************************************)
(* Model of actstream/managers.py (django-activity-stream, soft-delete     *)
(* fork): the Action Builder (_action_build_kwargs), the ActionManager     *)
(* query surface (create / get_or_create / get / filter / exclude /        *)
(* public) and the stream operations (actor / target / action_object /     *)
(* model_actions / any / user).                                            *)
(*                                                                         *)
(* A keyword-argument dict is a function from key strings to values.  An   *)
(* Action row is a record whose fields are the storage columns, so that a  *)
(* canonical filter dict and a row share their keys.  A Q object is a set  *)
(* of clause dicts (an OR of ANDs); a query set is a record holding the    *)
(* chain of filter applications, evaluated against the store on demand.    *)
(***************************************************************************)
EXTENDS Integers, Sequences, FiniteSets, TLC

VARIABLES actions, follows, last

vars == <<actions, follows, last>>

\* ------------------------------------------------------------------ bounds
MaxActions == 1
MaxFollows == 2
MaxArgs == 3

\* ---------------------------------------------------------------- entities
\* An entity is a (content type, primary key) pair.  Two registered types
\* share the primary key 1, "other" is a type the Registry does not hold.
RegisteredTypes == {"user", "group"}

ContentTypes == RegisteredTypes \cup {"other"}

None == [ct |-> "NoneType", id |-> 0]

U == [ct |-> "user", id |-> 1]

G == [ct |-> "group", id |-> 1]

X == [ct |-> "other", id |-> 1]

Registered == {U, G}

Verbs == {"did"}

Truthy(obj) == obj # None

\* registry.check: passes only for an object (or model) of a registered type
check(obj) == obj.ct \in RegisteredTypes

\* ContentType.objects.get_for_model
get_for_model(obj) == obj.ct

PublicDefault == TRUE

DeletedDefault == FALSE

\* ------------------------------------------------------------------- dicts
EmptyDict == [k \in {} |-> TRUE]

Pop(d, k) == [x \in DOMAIN d \ {k} |-> d[x]]

Put(d, k, v) == [x \in DOMAIN d \cup {k} |-> IF x = k THEN v ELSE d[x]]

\* dict.update: the entries of e override those of d
Update(d, e) == [x \in DOMAIN d \cup DOMAIN e |-> IF x \in DOMAIN e THEN e[x] ELSE d[x]]

\* Python binds the keyword arguments of a call, given in order, to a dict
RECURSIVE ToDict(_)
ToDict(args) ==
    IF args = <<>> THEN EmptyDict
    ELSE Put(ToDict(SubSeq(args, 1, Len(args) - 1)),
             args[Len(args)][1], args[Len(args)][2])

\* ----------------------------------------------------------- Action Builder
RoleNames == <<"actor", "target", "action_object">>

ObjectIdKey(name) ==
    CASE name = "actor" -> "actor_object_id"
      [] name = "target" -> "target_object_id"
      [] name = "action_object" -> "action_object_object_id"

ContentTypeKey(name) ==
    CASE name = "actor" -> "actor_content_type"
      [] name = "target" -> "target_content_type"
      [] name = "action_object" -> "action_object_content_type"

\* PopAlias looking for the aliases in the opposite order
PopAliasObjFirst(kwargs) ==
    IF "obj" \in DOMAIN kwargs
        THEN Put(Pop(kwargs, "obj"), "action_object", kwargs["obj"])
    ELSE IF "object" \in DOMAIN kwargs
        THEN Put(Pop(kwargs, "object"), "action_object", kwargs["object"])
    ELSE IF "action" \in DOMAIN kwargs
        THEN Put(Pop(kwargs, "action"), "action_object", kwargs["action"])
    ELSE kwargs

\* managers.py 25-32: the first alias present, in the order action, object,
\* obj, is moved to action_object; the other aliases stay where they are.
PopAlias(kwargs) ==
    IF "action" \in DOMAIN kwargs
        THEN Put(Pop(kwargs, "action"), "action_object", kwargs["action"])
    ELSE IF "object" \in DOMAIN kwargs
        THEN Put(Pop(kwargs, "object"), "action_object", kwargs["object"])
    ELSE IF "obj" \in DOMAIN kwargs
        THEN Put(Pop(kwargs, "obj"), "action_object", kwargs["obj"])
    ELSE kwargs

\* BuildRoles resolving the content type of a role before checking it
RECURSIVE BuildRolesResolveFirst(_, _)
BuildRolesResolveFirst(i, b) ==
    IF i > Len(RoleNames) THEN b
    ELSE LET name == RoleNames[i] IN
         IF name \notin DOMAIN b.kwargs THEN BuildRolesResolveFirst(i + 1, b)
         ELSE LET obj == b.kwargs[name] IN
              IF ~check(obj)
                  THEN [b EXCEPT !.err = "UnregisteredTypeError", !.checks = @ + 1,
                                 !.ctypes = @ + 1]
              ELSE BuildRolesResolveFirst(i + 1,
                      [b EXCEPT !.checks = @ + 1,
                                !.ctypes = @ + 1,
                                !.kwargs2 = Put(Put(@, ObjectIdKey(name), obj.id),
                                                ContentTypeKey(name), get_for_model(obj)),
                                !.kwargs = Pop(@, name)])

\* managers.py 35-41: one role after the other is checked, resolved to its
\* content type and replaced by its two canonical fields.  b carries the
\* remaining kwargs, kwargs2 and the numbers of Registry checks and of
\* content-type resolutions made so far.
RECURSIVE BuildRoles(_, _)
BuildRoles(i, b) ==
    IF i > Len(RoleNames) THEN b
    ELSE LET name == RoleNames[i] IN
         IF name \notin DOMAIN b.kwargs THEN BuildRoles(i + 1, b)
         ELSE LET obj == b.kwargs[name] IN
              IF ~check(obj)
                  THEN [b EXCEPT !.err = "UnregisteredTypeError", !.checks = @ + 1]
              ELSE BuildRoles(i + 1,
                      [b EXCEPT !.checks = @ + 1,
                                !.ctypes = @ + 1,
                                !.kwargs2 = Put(Put(@, ObjectIdKey(name), obj.id),
                                                ContentTypeKey(name), get_for_model(obj)),
                                !.kwargs = Pop(@, name)])

\* managers.py 23-46
_action_build_kwargs(kwargs) ==
    LET b == BuildRoles(1, [err |-> "", kwargs |-> PopAlias(kwargs),
                            kwargs2 |-> EmptyDict, checks |-> 0, ctypes |-> 0])
    IN  IF b.err # "" THEN [err |-> b.err, kwargs2 |-> EmptyDict,
                            checks |-> b.checks, ctypes |-> b.ctypes]
        ELSE [err |-> "", kwargs2 |-> Update(b.kwargs2, b.kwargs),
              checks |-> b.checks, ctypes |-> b.ctypes]

\* ----------------------------------------------------------------- storage
\* The columns of an Action row.  A role that was not given is stored NULL.
Null == [ct |-> "", id |-> 0]

NewRow(kwargs2) ==
    Update([actor_content_type |-> Null.ct, actor_object_id |-> Null.id,
            target_content_type |-> Null.ct, target_object_id |-> Null.id,
            action_object_content_type |-> Null.ct,
            action_object_object_id |-> Null.id,
            verb |-> "", public |-> PublicDefault, deleted |-> DeletedDefault],
           kwargs2)

InKeys == {"actor_object_id__in", "target_object_id__in", "action_object_object_id__in"}

Column(key) ==
    CASE key = "actor_object_id__in" -> "actor_object_id"
      [] key = "target_object_id__in" -> "target_object_id"
      [] key = "action_object_object_id__in" -> "action_object_object_id"
      [] OTHER -> key

\* one keyword lookup against a row: equality, or membership for __in
Lookup(row, key, value) ==
    IF key \in InKeys THEN row[Column(key)] \in value ELSE row[key] = value

\* a clause dict is the AND of its lookups
ClauseMatches(row, clause) == \A key \in DOMAIN clause : Lookup(row, key, clause[key])

\* a Q object is the OR of its clauses; the empty Q() restricts nothing
QMatches(row, q) == q = {} \/ \E clause \in q : ClauseMatches(row, clause)

\* Q(**kwargs); no keyword at all is the empty Q()
QOf(kwargs) == IF DOMAIN kwargs = {} THEN {} ELSE {kwargs}

\* one link of a filter / exclude chain; excluding the empty Q() excludes nothing
CondMatches(row, cond) ==
    IF cond.neg /\ cond.q # {} THEN ~QMatches(row, cond.q) ELSE QMatches(row, cond.q)

\* QuerySet: lazy, a chain of conditions; none() yields nothing
AllRows == [none |-> FALSE, conds |-> <<>>]

QNone(qs) == [qs EXCEPT !.none = TRUE]

\* QuerySet.filter(*args, **kwargs) of the storage layer
QFilter(qs, args, kwargs) ==
    [qs EXCEPT !.conds = @ \o [i \in DOMAIN args |-> [neg |-> FALSE, q |-> args[i]]]
                           \o <<[neg |-> FALSE, q |-> QOf(kwargs)]>>]

\* QuerySet.exclude(**kwargs) of the storage layer
QExclude(qs, kwargs) ==
    [qs EXCEPT !.conds = Append(@, [neg |-> TRUE, q |-> QOf(kwargs)])]

\* the primary keys a query set yields when it is iterated
Evaluate(qs) ==
    IF qs.none THEN {}
    ELSE {i \in DOMAIN actions :
             \A j \in DOMAIN qs.conds : CondMatches(actions[i], qs.conds[j])}

\* --------------------------------------------------------------- outcomes
\* What a call did before it returned or raised: err, the lazy query set it
\* returned, and how many Registry checks, content-type resolutions and
\* storage queries it made on the way.
Raised(err, checks, ctypes, queries) ==
    [err |-> err, qs |-> QNone(AllRows), checks |-> checks, ctypes |-> ctypes,
     queries |-> queries]

Returned(qs, checks, ctypes, queries) ==
    [err |-> "", qs |-> qs, checks |-> checks, ctypes |-> ctypes, queries |-> queries]

\* ------------------------------------------------------------ ActionManager
\* A manager is the query set it starts from: Action.objects starts from all
\* rows, the reverse relation of an entity from the rows naming it in a role.

\* filter without the default for `deleted`
filter_without_default(manager, args, kwargs) ==
    LET b == _action_build_kwargs(kwargs)
    IN  IF b.err # "" THEN Raised(b.err, b.checks, b.ctypes, 0)
        ELSE Returned(QFilter(manager, args, b.kwargs2), b.checks, b.ctypes, 0)

\* managers.py 65-70
filter(manager, args, kwargs) ==
    LET kw == IF "deleted" \notin DOMAIN kwargs
                  THEN Put(kwargs, "deleted", FALSE) ELSE kwargs
        b == _action_build_kwargs(kw)
    IN  IF b.err # "" THEN Raised(b.err, b.checks, b.ctypes, 0)
        ELSE Returned(QFilter(manager, args, b.kwargs2), b.checks, b.ctypes, 0)

\* managers.py 72-74
exclude(manager, kwargs) ==
    LET b == _action_build_kwargs(kwargs)
    IN  IF b.err # "" THEN Raised(b.err, b.checks, b.ctypes, 0)
        ELSE Returned(QExclude(manager, b.kwargs2), b.checks, b.ctypes, 0)

\* public letting the caller's own `public` stand
public_setdefault(manager, args, kwargs) ==
    filter(manager, args,
           IF "public" \in DOMAIN kwargs THEN kwargs ELSE Put(kwargs, "public", TRUE))

\* managers.py 76-81
public(manager, args, kwargs) == filter(manager, args, Put(kwargs, "public", TRUE))

\* counts of what the caller did itself, added to those of the call it made
After(r, checks, ctypes, queries) ==
    [r EXCEPT !.checks = @ + checks, !.ctypes = @ + ctypes, !.queries = @ + queries]

\* obj.actor_actions, obj.target_actions, obj.action_object_actions: the
\* manager over the rows that name obj in the role
ReverseRelation(obj, name) ==
    QFilter(AllRows, <<>>,
            Put(Put(EmptyDict, ContentTypeKey(name), obj.ct), ObjectIdKey(name), obj.id))

Manager == AllRows

\* managers.py 83-90
actor(obj, kwargs) ==
    IF ~check(obj) THEN Raised("UnregisteredTypeError", 1, 0, 0)
    ELSE After(public(ReverseRelation(obj, "actor"), <<>>, kwargs), 1, 0, 0)

\* target going through the reverse relation of the actor role
target_by_actor_relation(obj, kwargs) ==
    IF ~check(obj) THEN Raised("UnregisteredTypeError", 1, 0, 0)
    ELSE After(public(ReverseRelation(obj, "actor"), <<>>, kwargs), 1, 0, 0)

\* managers.py 92-99
target(obj, kwargs) ==
    IF ~check(obj) THEN Raised("UnregisteredTypeError", 1, 0, 0)
    ELSE After(public(ReverseRelation(obj, "target"), <<>>, kwargs), 1, 0, 0)

\* managers.py 101-108
action_object(obj, kwargs) ==
    IF ~check(obj) THEN Raised("UnregisteredTypeError", 1, 0, 0)
    ELSE After(public(ReverseRelation(obj, "action_object"), <<>>, kwargs), 1, 0, 0)

\* model_actions without the Registry check
model_actions_unchecked(model, kwargs) ==
    LET ctype == get_for_model(model)
        q == {[target_content_type |-> ctype],
              [action_object_content_type |-> ctype],
              [actor_content_type |-> ctype]}
    IN  After(public(Manager, <<q>>, kwargs), 0, 1, 0)

\* managers.py 110-122
model_actions(model, kwargs) ==
    IF ~check(model) THEN Raised("UnregisteredTypeError", 1, 0, 0)
    ELSE LET ctype == get_for_model(model)
             q == {[target_content_type |-> ctype],
                   [action_object_content_type |-> ctype],
                   [actor_content_type |-> ctype]}
         IN  After(public(Manager, <<q>>, kwargs), 1, 1, 0)

\* any without the clause of the action_object role
any_without_action_object(obj, kwargs) ==
    IF ~check(obj) THEN Raised("UnregisteredTypeError", 1, 0, 0)
    ELSE LET ctype == get_for_model(obj)
             q == {[actor_content_type |-> ctype, actor_object_id |-> obj.id],
                   [target_content_type |-> ctype, target_object_id |-> obj.id]}
         IN  After(public(Manager, <<q>>, kwargs), 1, 1, 0)

\* managers.py 124-141
any(obj, kwargs) ==
    IF ~check(obj) THEN Raised("UnregisteredTypeError", 1, 0, 0)
    ELSE LET ctype == get_for_model(obj)
             q == {[actor_content_type |-> ctype, actor_object_id |-> obj.id],
                   [target_content_type |-> ctype, target_object_id |-> obj.id],
                   [action_object_content_type |-> ctype,
                    action_object_object_id |-> obj.id]}
         IN  After(public(Manager, <<q>>, kwargs), 1, 1, 0)

\* managers.py 163-165: the Follow rows of the user
follow_gfks(obj) == {f \in follows : f.user = obj.id}

\* managers.py 156-170: object ids by content type id; a key exists once it
\* was touched, as in a defaultdict
actors_by_content_type(obj, with_user_activity) ==
    LET own == IF with_user_activity THEN {obj} ELSE {}
        rows == follow_gfks(obj)
    IN  [ct \in {get_for_model(o) : o \in own} \cup {f.content_type : f \in rows} |->
            {o.id : o \in {e \in own : get_for_model(e) = ct}}
            \cup {f.object_id : f \in {r \in rows : r.content_type = ct}}]

\* others_by_content_type taking every follow, actor-only or not
others_by_content_type_all(obj) ==
    LET rows == follow_gfks(obj)
    IN  [ct \in {f.content_type : f \in rows} |->
            {f.object_id : f \in {r \in rows : r.content_type = ct}}]

others_by_content_type(obj) ==
    LET rows == {f \in follow_gfks(obj) : ~f.actor_only}
    IN  [ct \in {f.content_type : f \in rows} |->
            {f.object_id : f \in {r \in rows : r.content_type = ct}}]

\* user without the return of the empty feed when nothing is followed
user_without_empty_return(obj, kwargs) ==
    LET qs == public(Manager, <<>>, EmptyDict)
        with_user_activity == "with_user_activity" \in DOMAIN kwargs
                              /\ kwargs["with_user_activity"]
        rest == Pop(kwargs, "with_user_activity")
        abct == actors_by_content_type(obj, with_user_activity)
        obct == others_by_content_type(obj)
        q == {[actor_content_type |-> ct, actor_object_id__in |-> abct[ct]] :
                  ct \in DOMAIN abct}
             \cup {[target_content_type |-> ct, target_object_id__in |-> obct[ct]] :
                  ct \in DOMAIN obct}
             \cup {[action_object_content_type |-> ct,
                    action_object_object_id__in |-> obct[ct]] : ct \in DOMAIN obct}
        resolved == IF with_user_activity THEN 1 ELSE 0
    IN  IF ~Truthy(obj) THEN After(Returned(QNone(qs.qs), 0, 0, 0), qs.checks, qs.ctypes, 0)
        ELSE IF ~check(obj) THEN Raised("UnregisteredTypeError", qs.checks + 1, qs.ctypes, 0)
        ELSE Returned(QFilter(qs.qs, <<q>>, rest), qs.checks + 1, qs.ctypes + resolved, 1)

\* managers.py 143-188
user(obj, kwargs) ==
    LET qs == public(Manager, <<>>, EmptyDict)
        with_user_activity == "with_user_activity" \in DOMAIN kwargs
                              /\ kwargs["with_user_activity"]
        rest == Pop(kwargs, "with_user_activity")
        abct == actors_by_content_type(obj, with_user_activity)
        obct == others_by_content_type(obj)
        q == {[actor_content_type |-> ct, actor_object_id__in |-> abct[ct]] :
                  ct \in DOMAIN abct}
             \cup {[target_content_type |-> ct, target_object_id__in |-> obct[ct]] :
                  ct \in DOMAIN obct}
             \cup {[action_object_content_type |-> ct,
                    action_object_object_id__in |-> obct[ct]] : ct \in DOMAIN obct}
        resolved == IF with_user_activity THEN 1 ELSE 0
    IN  IF ~Truthy(obj) THEN After(Returned(QNone(qs.qs), 0, 0, 0), qs.checks, qs.ctypes, 0)
        ELSE IF ~check(obj) THEN Raised("UnregisteredTypeError", qs.checks + 1, qs.ctypes, 0)
        ELSE IF Cardinality(DOMAIN abct) + Cardinality(DOMAIN obct) = 0
            THEN Returned(QNone(qs.qs), qs.checks + 1, qs.ctypes + resolved, 1)
        ELSE Returned(QFilter(qs.qs, <<q>>, rest), qs.checks + 1, qs.ctypes + resolved, 1)

Idle == [op |-> "idle"]

Init ==
    /\ actions = <<>>
    /\ follows = {}
    /\ last = Idle

\* The caller is single threaded: it makes a call, looks at what came back
\* and only then makes the next one.
Return ==
    /\ last # Idle
    /\ last' = Idle
    /\ UNCHANGED <<actions, follows>>

\* ------------------------------------------------------------ input sets
One(key, values) == {[k \in {key} |-> v] : v \in values}

Opt(key, values) == {EmptyDict} \cup One(key, values)

Cross(A, B) == {Update(a, b) : a \in A, b \in B}

\* create(actor=, target=, action_object=, verb=, public=) over the entities
CreateKwargs(entities) ==
    Cross(One("actor", entities),
    Cross(Opt("target", entities),
    Cross(Opt("action_object", entities),
    Cross(One("verb", Verbs), Opt("public", {FALSE})))))

\* the extra filters given to a stream
StreamKwargs == Opt("deleted", {TRUE})

UserKwargs == Cross(Opt("with_user_activity", {TRUE}), StreamKwargs)

ModelOf(ct) == [ct |-> ct]

FollowRows ==
    {[user |-> U.id, content_type |-> get_for_model(e), object_id |-> e.id,
      actor_only |-> a] : e \in Registered, a \in BOOLEAN}

\* the keyword filters given to filter() and public()
FilterKwargs ==
    Cross(Opt("deleted", BOOLEAN),
    Cross(Opt("public", BOOLEAN),
    Cross(Opt("actor", {U, X}), Opt("target", {G, X}))))

\* entities given by role to get(), exclude() and get_or_create()
RoleKwargs ==
    Cross(Opt("actor", {U, X}),
    Cross(Opt("target", {G, X}), Opt("action_object", {G, X})))

PublicKwargs ==
    Cross(Opt("deleted", {TRUE}),
    Cross(Opt("public", BOOLEAN), Opt("actor", {U, X})))

\* the objects a stream is asked for
StreamObjects == {U, G, X, None}

UserObjects == {U, X, None}

GetOrCreateKwargs ==
    Cross(One("actor", {U, G, X}),
    Cross(Opt("target", {U, G, X}), One("verb", Verbs)))

\* ------------------------------------------------------------- operations
\* what the caller sees of a stream: the error raised, or the rows the
\* stream yields, and what the call did on the way
Observe(op, obj, kwargs, r) ==
    [op |-> op, obj |-> obj, kwargs |-> kwargs, err |-> r.err,
     result |-> IF r.err = "" THEN Evaluate(r.qs) ELSE {},
     checks |-> r.checks, ctypes |-> r.ctypes, queries |-> r.queries]

\* managers.py 53-55: the builder, then the insert of the storage layer
create(kwargs) ==
    LET b == _action_build_kwargs(kwargs)
    IN  IF b.err # ""
            THEN [err |-> b.err, rows |-> actions, pk |-> 0,
                  checks |-> b.checks, ctypes |-> b.ctypes, queries |-> 0]
        ELSE [err |-> "", rows |-> Append(actions, NewRow(b.kwargs2)),
              pk |-> Len(actions) + 1,
              checks |-> b.checks, ctypes |-> b.ctypes, queries |-> 1]

\* the rows a plain storage lookup by the canonical fields finds
Found(rows, kwargs2) == {i \in DOMAIN rows : ClauseMatches(rows[i], kwargs2)}

\* managers.py 61-63: the builder, then the get of the storage layer, which
\* wants exactly one row
get(kwargs) ==
    LET b == _action_build_kwargs(kwargs)
        found == Found(actions, b.kwargs2)
    IN  IF b.err # ""
            THEN [err |-> b.err, result |-> {},
                  checks |-> b.checks, ctypes |-> b.ctypes, queries |-> 0]
        ELSE [err |-> IF found = {} THEN "DoesNotExist"
                      ELSE IF Cardinality(found) > 1 THEN "MultipleObjectsReturned"
                      ELSE "",
              result |-> IF Cardinality(found) = 1 THEN found ELSE {},
              checks |-> b.checks, ctypes |-> b.ctypes, queries |-> 1]

\* managers.py 57-59: the builder, then the get_or_create of the storage
\* layer: the row found, or a new row of the canonical fields
get_or_create(kwargs) ==
    LET b == _action_build_kwargs(kwargs)
        found == Found(actions, b.kwargs2)
    IN  IF b.err # ""
            THEN [err |-> b.err, rows |-> actions, result |-> {}, created |-> FALSE,
                  checks |-> b.checks, ctypes |-> b.ctypes, queries |-> 0]
        ELSE IF Cardinality(found) > 1
            THEN [err |-> "MultipleObjectsReturned", rows |-> actions, result |-> {},
                  created |-> FALSE,
                  checks |-> b.checks, ctypes |-> b.ctypes, queries |-> 1]
        ELSE IF Cardinality(found) = 1
            THEN [err |-> "", rows |-> actions, result |-> found, created |-> FALSE,
                  checks |-> b.checks, ctypes |-> b.ctypes, queries |-> 1]
        ELSE [err |-> "", rows |-> Append(actions, NewRow(b.kwargs2)),
              result |-> {Len(actions) + 1}, created |-> TRUE,
              checks |-> b.checks, ctypes |-> b.ctypes, queries |-> 2]

Create(entities) ==
    /\ last = Idle
    /\ Len(actions) < MaxActions
    /\ \E kwargs \in CreateKwargs(entities) :
        LET r == create(kwargs) IN
        /\ actions' = r.rows
        /\ last' = [op |-> "create", kwargs |-> kwargs, err |-> r.err, pk |-> r.pk,
                    before |-> actions,
                    checks |-> r.checks, ctypes |-> r.ctypes, queries |-> r.queries]
    /\ UNCHANGED follows

\* an Action is never removed, its deleted flag is set
SoftDelete ==
    /\ last = Idle
    /\ \E pk \in DOMAIN actions :
        /\ ~actions[pk].deleted
        /\ actions' = [actions EXCEPT ![pk].deleted = TRUE]
        /\ last' = [op |-> "soft_delete", pk |-> pk]
    /\ UNCHANGED follows

Follow ==
    /\ last = Idle
    /\ Cardinality(follows) < MaxFollows
    /\ \E f \in FollowRows \ follows :
        /\ follows' = follows \cup {f}
        /\ last' = [op |-> "follow", row |-> f]
    /\ UNCHANGED actions

Unfollow ==
    /\ last = Idle
    /\ \E f \in follows :
        /\ follows' = follows \ {f}
        /\ last' = [op |-> "unfollow", row |-> f]
    /\ UNCHANGED actions

ActorCall ==
    /\ last = Idle
    /\ \E obj \in StreamObjects, kwargs \in StreamKwargs :
        last' = Observe("actor", obj, kwargs, actor(obj, kwargs))
    /\ UNCHANGED <<actions, follows>>

TargetCall ==
    /\ last = Idle
    /\ \E obj \in StreamObjects, kwargs \in StreamKwargs :
        last' = Observe("target", obj, kwargs, target(obj, kwargs))
    /\ UNCHANGED <<actions, follows>>

ActionObjectCall ==
    /\ last = Idle
    /\ \E obj \in StreamObjects, kwargs \in StreamKwargs :
        last' = Observe("action_object", obj, kwargs, action_object(obj, kwargs))
    /\ UNCHANGED <<actions, follows>>

ModelActionsCall ==
    /\ last = Idle
    /\ \E ct \in ContentTypes, kwargs \in StreamKwargs :
        last' = Observe("model_actions", ModelOf(ct), kwargs,
                        model_actions(ModelOf(ct), kwargs))
    /\ UNCHANGED <<actions, follows>>

AnyCall ==
    /\ last = Idle
    /\ \E obj \in StreamObjects, kwargs \in StreamKwargs :
        last' = Observe("any", obj, kwargs, any(obj, kwargs))
    /\ UNCHANGED <<actions, follows>>

UserCall ==
    /\ last = Idle
    /\ \E obj \in UserObjects, kwargs \in UserKwargs :
        last' = Observe("user", obj, kwargs, user(obj, kwargs))
    /\ UNCHANGED <<actions, follows>>

GetOrCreateCall ==
    /\ last = Idle
    /\ \E kwargs \in GetOrCreateKwargs :
        LET r == get_or_create(kwargs) IN
        /\ r.created => Len(actions) < MaxActions
        /\ actions' = r.rows
        /\ last' = [op |-> "get_or_create", kwargs |-> kwargs, err |-> r.err,
                    result |-> r.result, created |-> r.created, before |-> actions,
                    checks |-> r.checks, ctypes |-> r.ctypes, queries |-> r.queries]
    /\ UNCHANGED follows

GetCall ==
    /\ last = Idle
    /\ \E kwargs \in RoleKwargs :
        LET r == get(kwargs) IN
        last' = [op |-> "get", kwargs |-> kwargs, err |-> r.err, result |-> r.result,
                 checks |-> r.checks, ctypes |-> r.ctypes, queries |-> r.queries]
    /\ UNCHANGED <<actions, follows>>

FilterCall ==
    /\ last = Idle
    /\ \E kwargs \in FilterKwargs :
        last' = Observe("filter", None, kwargs, filter(Manager, <<>>, kwargs))
    /\ UNCHANGED <<actions, follows>>

ExcludeCall ==
    /\ last = Idle
    /\ \E kwargs \in RoleKwargs :
        last' = Observe("exclude", None, kwargs, exclude(Manager, kwargs))
    /\ UNCHANGED <<actions, follows>>

PublicCall ==
    /\ last = Idle
    /\ \E kwargs \in PublicKwargs :
        last' = Observe("public", None, kwargs, public(Manager, <<>>, kwargs))
    /\ UNCHANGED <<actions, follows>>

\* ---------------------------------------------------------- specifications
\* the streams over a store that grows and is soft-deleted; nobody follows
\* anything here, the feed of a follower is SpecFeed's
Next ==
    \/ Create(Registered)
    \/ SoftDelete
    \/ ActorCall
    \/ TargetCall
    \/ ActionObjectCall
    \/ AnyCall
    \/ ModelActionsCall
    \/ UserCall
    \/ Return

Spec == Init /\ [][Next]_vars

\* the feed of a user whose follows come and go
NextFeed ==
    \/ Create(Registered)
    \/ SoftDelete
    \/ Follow
    \/ Unfollow
    \/ UserCall
    \/ ActorCall
    \/ Return

SpecFeed == Init /\ [][NextFeed]_vars

\* the manager's own query surface; here entities of an unregistered type
\* are given too
NextManager ==
    \/ Create({U, G, X})
    \/ SoftDelete
    \/ GetOrCreateCall
    \/ GetCall
    \/ FilterCall
    \/ ExcludeCall
    \/ PublicCall
    \/ Return

SpecManager == Init /\ [][NextManager]_vars

\* ------------------------------------------------------------- properties
ActorRef(row) == [ct |-> row.actor_content_type, id |-> row.actor_object_id]

TargetRef(row) == [ct |-> row.target_content_type, id |-> row.target_object_id]

ObjectRef(row) == [ct |-> row.action_object_content_type,
                   id |-> row.action_object_object_id]

FollowedRef(f) == [ct |-> f.content_type, id |-> f.object_id]

Given(key) == key \in DOMAIN last.kwargs

Flag(key) == Given(key) /\ last.kwargs[key]

\* the feed predicate of user obj: an entity obj follows is the actor, obj
\* itself is the actor and its own activity was asked for, or an entity obj
\* follows with actor_only = False is the target or the action object
InFeed(row, obj, own) ==
    \/ \E f \in follows : f.user = obj.id /\ ActorRef(row) = FollowedRef(f)
    \/ own /\ ActorRef(row) = obj
    \/ \E f \in follows : /\ f.user = obj.id
                          /\ ~f.actor_only
                          /\ FollowedRef(f) \in {TargetRef(row), ObjectRef(row)}

\* C1: user(U, with_user_activity=w) of a registered truthy user U, with no
\* extra filter, returns exactly the public, non-deleted Actions in U's feed:
\* those whose actor U follows (or is U, when w), and those whose target or
\* action object U follows with actor_only = False.
C1_UserFeed ==
    (last.op = "user" /\ Truthy(last.obj) /\ check(last.obj) /\ ~Given("deleted"))
    => /\ last.err = ""
       /\ last.result =
            {i \in DOMAIN actions :
                /\ actions[i].public
                /\ ~actions[i].deleted
                /\ InFeed(actions[i], last.obj, Flag("with_user_activity"))}

\* the feed asked for while U follows an entity actor-only and the stored
\* Action names that entity as target or action object alone: the feed does
\* not yield it
C1_Witness ==
    /\ last.op = "user"
    /\ last.obj = U
    /\ ~Given("deleted")
    /\ \E f \in follows :
        /\ f.actor_only
        /\ \E i \in DOMAIN actions :
            /\ actions[i].public /\ ~actions[i].deleted
            /\ FollowedRef(f) \in {TargetRef(actions[i]), ObjectRef(actions[i])}
            /\ ActorRef(actions[i]) # FollowedRef(f)
            /\ i \notin last.result

\* C4: user(obj) returns the empty sequence, and no error, when obj is falsy
\* or when obj is a registered user without Follow rows and with_user_activity
\* is false; for a falsy obj no storage query and no Registry check is made.
C4_EmptyFeed ==
    /\ (last.op = "user" /\ ~Truthy(last.obj))
       => /\ last.err = "" /\ last.result = {}
          /\ last.queries = 0 /\ last.checks = 0
    /\ (/\ last.op = "user" /\ Truthy(last.obj) /\ check(last.obj)
        /\ ~Flag("with_user_activity")
        /\ ~\E f \in follows : f.user = last.obj.id)
       => last.err = "" /\ last.result = {}

\* a user without follows asks for the feed while a public, live Action is
\* stored
C4_Witness ==
    /\ last.op = "user"
    /\ last.obj = U
    /\ last.kwargs = EmptyDict
    /\ follows = {}
    /\ \E i \in DOMAIN actions : actions[i].public /\ ~actions[i].deleted
    /\ last.result = {}

StreamOps == {"actor", "target", "action_object", "model_actions", "any", "user"}

\* C2 as stated: every stream operation asked for an entity or type that is
\* not in the Registry fails with UnregisteredTypeError, having made no
\* storage query, and never returns a result.
C2_Original ==
    (last.op \in StreamOps /\ ~check(last.obj))
    => last.err = "UnregisteredTypeError" /\ last.queries = 0

\* C2: actor, target, action_object, model_actions and any asked for an
\* unregistered entity or type, and user asked for a truthy unregistered
\* entity, fail with UnregisteredTypeError before any storage query or
\* content-type resolution; user asked for a falsy entity returns the empty
\* sequence instead, without an error.
C2_FailFast ==
    /\ (/\ last.op \in StreamOps
        /\ ~check(last.obj)
        /\ last.op = "user" => Truthy(last.obj))
       => /\ last.err = "UnregisteredTypeError"
          /\ last.result = {}
          /\ last.queries = 0 /\ last.ctypes = 0
    /\ (last.op = "user" /\ ~Truthy(last.obj))
       => last.err = "" /\ last.result = {} /\ last.queries = 0

\* any() asked for an entity of an unregistered type while Actions are stored
C2_Witness ==
    /\ last.op = "any"
    /\ last.obj = X
    /\ actions # <<>>
    /\ last.err = "UnregisteredTypeError"

\* row satisfies the keyword filters of the last call other than `skipped`
Satisfies(row, skipped) ==
    \A key \in DOMAIN last.kwargs \ skipped :
        CASE key = "actor" -> ActorRef(row) = last.kwargs[key]
          [] key = "target" -> TargetRef(row) = last.kwargs[key]
          [] key = "action_object" -> ObjectRef(row) = last.kwargs[key]
          [] OTHER -> row[key] = last.kwargs[key]

\* C3: filter() without a `deleted` argument returns exactly the non-deleted
\* Actions that match the other filters; filter(deleted=True) returns only
\* deleted Actions.
C3_FilterDeleted ==
    (last.op = "filter" /\ last.err = "")
    => /\ ~Given("deleted")
          => last.result = {i \in DOMAIN actions :
                               ~actions[i].deleted /\ Satisfies(actions[i], {})}
       /\ Flag("deleted") => \A i \in last.result : actions[i].deleted

\* filter() without `deleted` over a store holding a deleted Action that
\* matches the other filters
C3_Witness ==
    /\ last.op = "filter"
    /\ last.err = ""
    /\ ~Given("deleted")
    /\ \E i \in DOMAIN actions : actions[i].deleted /\ Satisfies(actions[i], {})
    /\ last.result = {}

\* C7: public(**filters) returns only Actions with public = true, also when
\* the filters say public=False, and only Actions that pass every other
\* filter given.
C7_PublicOnly ==
    (last.op = "public" /\ last.err = "")
    => \A i \in last.result :
          actions[i].public /\ Satisfies(actions[i], {"public"})

\* public(public=False) over a store whose Action is not public
C7_Witness ==
    /\ last.op = "public"
    /\ last.err = ""
    /\ Given("public") /\ ~last.kwargs["public"]
    /\ \E i \in DOMAIN actions :
          ~actions[i].public /\ ~actions[i].deleted /\ Satisfies(actions[i], {"public"})

\* what a stream yields now
Yields(r) == IF r.err = "" THEN Evaluate(r.qs) ELSE {}

\* C5: any(E) of a registered entity E yields exactly the union of what
\* actor(E), target(E) and action_object(E) yield, all of it public and not
\* deleted.
C5_AnyIsUnion ==
    (last.op = "any" /\ check(last.obj) /\ last.kwargs = EmptyDict)
    => /\ last.err = ""
       /\ last.result = Yields(actor(last.obj, EmptyDict))
                        \cup Yields(target(last.obj, EmptyDict))
                        \cup Yields(action_object(last.obj, EmptyDict))
       /\ \A i \in last.result : actions[i].public /\ ~actions[i].deleted

\* any(E) over an Action in which E is both the actor and the target
C5_Witness ==
    /\ last.op = "any"
    /\ last.kwargs = EmptyDict
    /\ \E i \in last.result :
          ActorRef(actions[i]) = last.obj /\ TargetRef(actions[i]) = last.obj

\* C8: after create(actor=X, verb=v, target=Y) with the default public and
\* deleted values the new Action is in actor(X) and in target(Y), is in
\* neither actor(Y) nor target(X) when X and Y differ, and stores the
\* (content type, id) pairs of X and Y.
C8_RoundTrip ==
    (last.op = "create" /\ last.err = "" /\ Given("target") /\ ~Given("public"))
    => LET x == last.kwargs["actor"]
           y == last.kwargs["target"]
       IN  /\ last.pk \in Yields(actor(x, EmptyDict))
           /\ last.pk \in Yields(target(y, EmptyDict))
           /\ x # y => /\ last.pk \notin Yields(actor(y, EmptyDict))
                       /\ last.pk \notin Yields(target(x, EmptyDict))
           /\ ActorRef(actions[last.pk]) = x
           /\ TargetRef(actions[last.pk]) = y

\* an Action was just created whose actor and target are entities of
\* different types with the same id
C8_Witness ==
    /\ last.op = "create"
    /\ last.err = ""
    /\ ~Given("public")
    /\ Given("target")
    /\ last.kwargs["actor"] # last.kwargs["target"]
    /\ last.kwargs["actor"].id = last.kwargs["target"].id

\* C9 as stated: deleted=True given to a stream replaces the default
\* exclusion of deleted Actions: actor(E, deleted=True) yields exactly the
\* deleted public Actions of actor E, and user(U, deleted=True) exactly the
\* deleted public Actions in U's feed.
C9_Original ==
    /\ (last.op = "actor" /\ check(last.obj) /\ Flag("deleted"))
       => last.result = {i \in DOMAIN actions :
                            /\ actions[i].public /\ actions[i].deleted
                            /\ ActorRef(actions[i]) = last.obj}
    /\ (last.op = "user" /\ Truthy(last.obj) /\ check(last.obj) /\ Flag("deleted"))
       => last.result = {i \in DOMAIN actions :
                            /\ actions[i].public /\ actions[i].deleted
                            /\ InFeed(actions[i], last.obj, Flag("with_user_activity"))}

BuilderOps == {"create", "get_or_create", "get", "filter", "exclude"}

RolesGiven == {name \in {"actor", "target", "action_object"} : Given(name)}

\* the roles given before the first one given an unregistered entity, in the
\* order actor, target, action_object
RolesBeforeFirstUnregistered ==
    LET bad(name) == name \in RolesGiven /\ ~check(last.kwargs[name])
    IN  IF bad("actor") THEN {}
        ELSE IF bad("target") THEN RolesGiven \cap {"actor"}
        ELSE RolesGiven \cap {"actor", "target"}

SomeRoleUnregistered == \E name \in RolesGiven : ~check(last.kwargs[name])

\* C10 as stated: create, get_or_create, get, filter and exclude given at
\* least one unregistered entity fail with UnregisteredTypeError before any
\* content-type resolution or storage call is made for any role, and the
\* Action store is unchanged.
C10_Original ==
    (last.op \in BuilderOps /\ SomeRoleUnregistered)
    => /\ last.err = "UnregisteredTypeError"
       /\ last.ctypes = 0
       /\ last.queries = 0
       /\ last.op \in {"create", "get_or_create"} => actions = last.before

\* C10: create, get_or_create, get, filter and exclude given at least one
\* unregistered entity fail with UnregisteredTypeError before any call to the
\* Action store, which is unchanged; by then the content type was resolved
\* for each role given before the first unregistered one, in the order actor,
\* target, action_object, and for no other.
C10_ValidationFirst ==
    (last.op \in BuilderOps /\ SomeRoleUnregistered)
    => /\ last.err = "UnregisteredTypeError"
       /\ last.queries = 0
       /\ last.ctypes = Cardinality(RolesBeforeFirstUnregistered)
       /\ last.checks = Cardinality(RolesBeforeFirstUnregistered) + 1
       /\ last.op \in {"create", "get_or_create"} => actions = last.before

\* create() given a registered actor and an unregistered target
C10_Witness ==
    /\ last.op = "create"
    /\ Given("target")
    /\ check(last.kwargs["actor"])
    /\ ~check(last.kwargs["target"])
    /\ last.err = "UnregisteredTypeError"

\* -------------------------------------------- the builder as a pure function
AliasKeys == {"action", "object", "obj"}

BuilderKeys == {"actor", "action_object"} \cup AliasKeys

BuilderValues == {U, G, X}

RECURSIVE ArgLists(_)
ArgLists(n) ==
    IF n = 0 THEN {<<>>}
    ELSE LET shorter == ArgLists(n - 1) IN
         shorter \cup
         { Append(a, <<k, v>>) : a \in {s \in shorter : Len(s) = n - 1},
                                 k \in BuilderKeys, v \in BuilderValues }

Keys(args) == {args[i][1] : i \in DOMAIN args}

DistinctKeys(args) == Cardinality(Keys(args)) = Len(args)

BuilderArgs == {args \in ArgLists(MaxArgs) : DistinctKeys(args)}

\* normalize(**args): the call binds args and runs the builder
Normalize ==
    /\ last = Idle
    /\ \E args \in BuilderArgs :
        last' = [op |-> "normalize", args |-> args,
                 out |-> _action_build_kwargs(ToDict(args))]
    /\ UNCHANGED <<actions, follows>>

AliasesGiven(args) == Keys(args) \cap AliasKeys

\* the alias given last in the call
LastAlias(args) ==
    args[CHOOSE i \in DOMAIN args :
            /\ args[i][1] \in AliasKeys
            /\ \A j \in DOMAIN args : args[j][1] \in AliasKeys => j <= i][1]

\* the alias the builder looks for first
FirstAlias(args) ==
    IF "action" \in Keys(args) THEN "action"
    ELSE IF "object" \in Keys(args) THEN "object" ELSE "obj"

\* args with the key of its one alias written action_object
Renamed(args) ==
    [i \in DOMAIN args |->
        IF args[i][1] \in AliasKeys THEN <<"action_object", args[i][2]>> ELSE args[i]]

OneAlias(args) ==
    Cardinality(AliasesGiven(args)) = 1 /\ "action_object" \notin Keys(args)

AllRegistered(args) == \A i \in DOMAIN args : check(args[i][2])

\* C6 as stated: one alias gives the output of action_object bound to the
\* same entity; of several aliases given together the one given last decides
\* the action_object fields, and no alias key is left in the output.
C6_Original ==
    last.op = "normalize"
    => /\ OneAlias(last.args)
          => last.out = _action_build_kwargs(ToDict(Renamed(last.args)))
       /\ (Cardinality(AliasesGiven(last.args)) > 1 /\ AllRegistered(last.args))
          => LET y == ToDict(last.args)[LastAlias(last.args)]
             IN  /\ last.out.err = ""
                 /\ last.out.kwargs2["action_object_object_id"] = y.id
                 /\ last.out.kwargs2["action_object_content_type"] = y.ct
                 /\ DOMAIN last.out.kwargs2 \cap AliasKeys = {}

\* C6: one alias gives the output of action_object bound to the same entity;
\* of several aliases given together the first present in the order action,
\* object, obj decides the action_object fields, whatever the order they were
\* given in, and every other alias given stays in the output under its own
\* key, bound to the entity it was given.
C6_AliasPrecedence ==
    last.op = "normalize"
    => /\ OneAlias(last.args)
          => last.out = _action_build_kwargs(ToDict(Renamed(last.args)))
       /\ (AliasesGiven(last.args) # {} /\ AllRegistered(last.args))
          => LET given == ToDict(last.args)
                 y == given[FirstAlias(last.args)]
                 others == AliasesGiven(last.args) \ {FirstAlias(last.args)}
             IN  /\ last.out.err = ""
                 /\ last.out.kwargs2["action_object_object_id"] = y.id
                 /\ last.out.kwargs2["action_object_content_type"] = y.ct
                 /\ DOMAIN last.out.kwargs2 \cap AliasKeys = others
                 /\ \A key \in others : last.out.kwargs2[key] = given[key]

\* two aliases given together, bound to different entities, the one the
\* builder looks for first given last
C6_Witness ==
    /\ last.op = "normalize"
    /\ Cardinality(AliasesGiven(last.args)) > 1
    /\ AllRegistered(last.args)
    /\ LastAlias(last.args) = FirstAlias(last.args)
    /\ \E key \in AliasesGiven(last.args) :
          ToDict(last.args)[key] # ToDict(last.args)[FirstAlias(last.args)]

NextBuilder ==
    \/ Normalize
    \/ Return

SpecBuilder == Init /\ [][NextBuilder]_vars

====
